---- MODULE Spec2Model ----
(***************************************************************************)
(* Model of scrape_news.py: the news scraper of dignityny.org.             *)
(*                                                                         *)
(* Strings are sequences of tokens.  A token is a string that the code     *)
(* never looks inside: "/" is the path separator, "index.php", "node",     *)
(* "news" are path segments, "https://dignityny.org" is BASE_URL, "blob:"  *)
(* a scheme, ".png" a file extension, "%20" a percent escape, and in       *)
(* titles each word, blank, comma and digit is one token.  The regular     *)
(* expressions of the code are scanned over tokens exactly as re.sub and   *)
(* re.search scan over characters: leftmost, non-overlapping, greedy.      *)
(***************************************************************************)
EXTENDS Integers, Sequences, FiniteSets, TLC

VARIABLES
    pc,            \* position of main()
    total_pages,   \* collect_article_urls: total_pages
    page_num,      \* collect_article_urls: page_num
    pending,       \* article blocks of the fetched listing page still to visit
    article_urls,  \* collect_article_urls: article_urls
    seen,          \* collect_article_urls: seen
    i,             \* main: loop index over article_urls
    cur,           \* scrape_article: locals of the article being scraped
    entries,       \* main: entries
    errors,        \* main: errors
    marks,         \* console: the OK / WARN / ERROR marker of each article
    img_count,     \* main: img_count
    disk,          \* the files of IMAGES_DIR
    outFile,       \* the file OUTPUT_FILE
    log,           \* the requests.get and time.sleep calls made so far
    norm_in,       \* argument of the normalisation under study
    norm_out,      \* its successive normalisations
    date_in,       \* argument of try_extract_date_from_title under study
    date_out,      \* its result
    date_done      \* whether date_out has been computed

pipeVars == <<pc, total_pages, page_num, pending, article_urls, seen, i, cur,
              entries, errors, marks, img_count, disk, outFile, log>>
normVars == <<norm_in, norm_out>>
dateVars == <<date_in, date_out, date_done>>
vars == <<pipeVars, normVars, dateVars>>

(***************************************************************************)
(* Bounds of the model.                                                    *)
(***************************************************************************)
MaxPage == 1        \* largest page index the listing navigation mentions
MaxPerPage == 2     \* article blocks on one listing page
MaxUrlLen == 6      \* tokens of a URL given to the normalisation
MaxDayDigits == 3   \* digits written after a month name in a title

SeqsUpTo(S, n) == UNION {[1..k -> S] : k \in 0..n}

Last(s) == s[Len(s)]

Contains(s, pat) ==
    \E k \in 1..(Len(s) - Len(pat) + 1) : SubSeq(s, k, k + Len(pat) - 1) = pat

Digits == <<"0", "1", "2", "3", "4", "5", "6", "7", "8", "9">>

IsDigit(t) == \E k \in 1..10 : Digits[k] = t

DigitVal(t) == (CHOOSE k \in 1..10 : Digits[k] = t) - 1

(***************************************************************************)
(* URLs.                                                                   *)
(***************************************************************************)
BASE_URL == <<"https://dignityny.org">>
NEWS_URL == BASE_URL \o <<"/", "news">>
IMAGES_DIR == <<"images">>

Schemes == {"https://dignityny.org", "https://cdn.example.org", "blob:"}

\* urljoin(BASE_URL, href) for the hrefs of the model: a reference that
\* carries its own scheme is kept, an absolute path replaces the path of
\* BASE_URL, the empty reference gives BASE_URL.
urljoin(base, href) ==
    IF href = <<>> THEN base
    ELSE IF href[1] \in Schemes THEN href
    ELSE <<base[1]>> \o href

\* re.sub(r"/index\.php/", "/", u): the leftmost match is replaced and the
\* scan resumes after it, so the "/" that ends one match never starts another.
RECURSIVE NormalizeFrom(_, _)
NormalizeFrom(u, k) ==
    IF k > Len(u) THEN <<>>
    ELSE IF k + 2 <= Len(u) /\ u[k] = "/" /\ u[k + 1] = "index.php" /\ u[k + 2] = "/"
         THEN <<"/">> \o NormalizeFrom(u, k + 3)
         ELSE <<u[k]>> \o NormalizeFrom(u, k + 1)

Normalize(u) == NormalizeFrom(u, 1)

\* f"{NEWS_URL}?page={page_num}" if page_num > 0 else NEWS_URL
ListingUrl(n) == IF n > 0 THEN NEWS_URL \o <<"?page=", Digits[n + 1]>> ELSE NEWS_URL

(***************************************************************************)
(* The site: what a fetch can return.                                      *)
(***************************************************************************)
\* hrefs of the anchors of the article blocks of a listing page
Hrefs == { <<"/", "node", "/", "1">>,
           <<"/", "index.php", "/", "node", "/", "1">>,
           <<"/", "index.php", "/", "index.php", "/", "node", "/", "1">>,
           <<"/", "node", "/", "2">>,
           <<"/", "about">> }

\* navigation of the first listing page: the page index of the "Last" link
\* (-1: no such link) and the page indices of all its page= links
Navs == [last : -1..MaxPage, nums : SUBSET (0..MaxPage)]

SetMax(S) == IF S = {} THEN 0 ELSE CHOOSE m \in S : \A n \in S : n <= m

\* get_total_pages on a fetched first page
get_total_pages(nav) ==
    IF nav.last >= 0 THEN nav.last
    ELSE SetMax(nav.nums)

\* a requests.get call and whether it returned (ok) or raised; a time.sleep call
GetCall(kind, url, ok) == [op |-> "get", kind |-> kind, url |-> url, ok |-> ok]
SleepCall == [op |-> "sleep", kind |-> "DELAY", url |-> <<>>, ok |-> TRUE]

NoCur == [title |-> <<>>, canon |-> FALSE, todo |-> <<>>, body |-> <<>>, images |-> <<>>]

\* <h1> text of the article page of a URL: the site gives node 1 a dated
\* title and the other nodes no <h1>
ArticleTitle(url) ==
    IF Last(url) = "1"
    THEN <<"Pride", " ", "Events", " ", "June", " ", "1", "5", ",", " ",
           "2", "0", "2", "4", " ", "celebration">>
    ELSE <<>>

\* src attributes of the <img> elements of article bodies
ImgEmpty == <<>>
ImgBlob == <<"blob:", "https://dignityny.org", "/", "a">>
ImgA == <<"/", "files", "/", "a", ".png">>
ImgA2 == <<"https://cdn.example.org", "/", "other", "/", "a", ".png", "?", "v">>
ImgNoExt == <<"/", "files", "/", "b", "%20", "c">>

\* the <img> lists of the bodies of article pages
ImgLists == { <<>>, <<ImgA, ImgA2>>, <<ImgBlob, ImgNoExt, ImgEmpty, ImgA>> }

(***************************************************************************)
(* make_local_filename                                                     *)
(***************************************************************************)
RECURSIVE CutAt(_, _)
\* the part of s before the first token of stops
CutAt(s, stops) ==
    IF s = <<>> \/ Head(s) \in stops THEN <<>>
    ELSE <<Head(s)>> \o CutAt(Tail(s), stops)

\* urlparse(img_url).path: without scheme and host, query and fragment
UrlPath(u) ==
    CutAt(IF u # <<>> /\ u[1] \in Schemes THEN Tail(u) ELSE u, {"?", "#"})

\* urllib.parse.unquote
unquote(s) ==
    [k \in 1..Len(s) |-> IF s[k] = "%20" THEN " "
                         ELSE IF s[k] = "%3F" THEN "?" ELSE s[k]]

RECURSIVE basename(_)
\* os.path.basename: what follows the last "/"
basename(s) ==
    IF \E k \in 1..Len(s) : s[k] = "/" THEN basename(Tail(s)) ELSE s

\* tokens that re.search(r"\.\w{2,5}$", ...) accepts at the end of a name
ExtTokens == {".png", ".jpg", ".jpeg", ".gif"}

\* characters outside [\w.\-]
UnsafeTokens == {" ", "?", "%20", "%3F", ":", "#"}

\* hashlib.md5(img_url.encode()).hexdigest()[:12]: a name of safe characters
\* that is a function of the whole URL
Md5Hex12(img_url) == <<"md5[">> \o img_url \o <<"]">>

make_local_filename(img_url) ==
    LET named == CutAt(basename(unquote(UrlPath(img_url))), {"?"})
        usable == named # <<>> /\ Last(named) \in ExtTokens
        chosen == IF usable THEN named ELSE Md5Hex12(img_url) \o <<".jpg">>
    IN IF usable   \* re.sub(r"[^\w.\-]", "_", ...) changes no hexadecimal digit
       THEN [k \in 1..Len(chosen) |-> IF chosen[k] \in UnsafeTokens THEN "_" ELSE chosen[k]]
       ELSE chosen

\* os.path.join(IMAGES_DIR, local_name)
LocalPath(local_name) == IMAGES_DIR \o <<"/">> \o local_name

\* f"images/{local_name}"
LocalRef(local_name) == <<"images", "/">> \o local_name

(***************************************************************************)
(* State after the start of main(): nothing collected, IMAGES_DIR as an    *)
(* earlier run left it, OUTPUT_FILE absent or left by an earlier run.      *)
(***************************************************************************)
PipeInit ==
    /\ pc = "start"
    /\ total_pages = 0
    /\ page_num = 0
    /\ pending = <<>>
    /\ article_urls = <<>>
    /\ seen = {}
    /\ i = 0
    /\ cur = NoCur
    /\ entries = <<>>
    /\ errors = <<>>
    /\ marks = <<>>
    /\ img_count = 0
    /\ log = <<>>
    /\ disk \in {{}, {[path |-> LocalPath(make_local_filename(urljoin(BASE_URL, ImgA))),
                       whole |-> TRUE]}}
    /\ outFile = [state |-> "stale", data |-> <<>>]

NormIdle == norm_in = <<>> /\ norm_out = <<>>
DateIdle == date_in = <<>> /\ date_out = <<>> /\ date_done = FALSE

\* the pipeline leaves the variables of the function studies alone
PureIdle == UNCHANGED <<normVars, dateVars>>

(***************************************************************************)
(* collect_article_urls                                                    *)
(***************************************************************************)
\* main, step 1, and get_total_pages: the first fetch of NEWS_URL raises and
\* nothing catches it
GetTotalPagesFails ==
    /\ pc = "start"
    /\ log' = Append(log, GetCall("discover", NEWS_URL, FALSE))
    /\ pc' = "aborted"
    /\ UNCHANGED <<total_pages, page_num, pending, article_urls, seen, i, cur,
                   entries, errors, marks, img_count, disk, outFile>>
    /\ PureIdle

GetTotalPages ==
    /\ pc = "start"
    /\ log' = Append(log, GetCall("discover", NEWS_URL, TRUE))
    /\ \E nav \in Navs : total_pages' = get_total_pages(nav)
    /\ pc' = "fetch_page"
    /\ UNCHANGED <<page_num, pending, article_urls, seen, i, cur, entries,
                   errors, marks, img_count, disk, outFile>>
    /\ PureIdle

\* get_soup(url) raising in the page loop: the run aborts
FetchListingPage_swallow ==
    /\ pc = "fetch_page"
    /\ log' = Append(log, GetCall("listing", ListingUrl(page_num), FALSE))
    /\ pending' = <<>>
    /\ pc' = "links"
    /\ UNCHANGED <<total_pages, page_num, article_urls, seen, i, cur, entries,
                   errors, marks, img_count, disk, outFile>>
    /\ PureIdle

FetchListingPageFails ==
    /\ pc = "fetch_page"
    /\ log' = Append(log, GetCall("listing", ListingUrl(page_num), FALSE))
    /\ pc' = "aborted"
    /\ UNCHANGED <<total_pages, page_num, pending, article_urls, seen, i, cur,
                   entries, errors, marks, img_count, disk, outFile>>
    /\ PureIdle

\* soup = get_soup(url); articles = soup.find_all("article", class_="story")
FetchListingPage ==
    /\ pc = "fetch_page"
    /\ log' = Append(log, GetCall("listing", ListingUrl(page_num), TRUE))
    /\ \E blocks \in SeqsUpTo(Hrefs, MaxPerPage) : pending' = blocks
    /\ pc' = "links"
    /\ UNCHANGED <<total_pages, page_num, article_urls, seen, i, cur, entries,
                   errors, marks, img_count, disk, outFile>>
    /\ PureIdle

\* the key under which a link is remembered in seen
SeenKey_raw(full_url) == full_url

SeenKey(full_url) == Normalize(full_url)

\* one article block of the page: lines 74-84
ProcessLink ==
    /\ pc = "links"
    /\ pending # <<>>
    /\ pending' = Tail(pending)
    /\ LET href == Head(pending)
           full_url == urljoin(BASE_URL, href)
           normalized == SeenKey(full_url)
       IN IF Contains(href, <<"/", "node", "/">>) /\ normalized \notin seen
          THEN /\ seen' = seen \cup {normalized}
               /\ article_urls' = Append(article_urls, full_url)
          ELSE UNCHANGED <<seen, article_urls>>
    /\ UNCHANGED <<pc, total_pages, page_num, i, cur, entries, errors, marks,
                   img_count, disk, outFile, log>>
    /\ PureIdle

\* end of the page: the delay unless it was the last page, then the next page
\* or the return to main
EndPage ==
    /\ pc = "links"
    /\ pending = <<>>
    /\ log' = IF page_num < total_pages THEN Append(log, SleepCall) ELSE log
    /\ page_num' = page_num + 1
    /\ pc' = IF page_num < total_pages THEN "fetch_page"
             ELSE IF article_urls = <<>> THEN "strip" ELSE "fetch_article"
    /\ UNCHANGED <<total_pages, pending, article_urls, seen, i, cur, entries,
                   errors, marks, img_count, disk, outFile>>
    /\ PureIdle

(***************************************************************************)
(* try_extract_date_from_title                                             *)
(***************************************************************************)
\* str.lower on the words of the model
Lower(t) ==
    CASE t = "June" -> "june"
      [] t = "JUNE" -> "june"
      [] t = "February" -> "february"
      [] t = "FEBRUARY" -> "february"
      [] t = "May" -> "may"
      [] OTHER -> t

MonthNames == {"january", "february", "march", "april", "may", "june", "july",
               "august", "september", "october", "november", "december"}

\* the dictionary months
months(m) ==
    CASE m = "january" -> <<"0", "1">>
      [] m = "february" -> <<"0", "2">>
      [] m = "march" -> <<"0", "3">>
      [] m = "april" -> <<"0", "4">>
      [] m = "may" -> <<"0", "5">>
      [] m = "june" -> <<"0", "6">>
      [] m = "july" -> <<"0", "7">>
      [] m = "august" -> <<"0", "8">>
      [] m = "september" -> <<"0", "9">>
      [] m = "october" -> <<"1", "0">>
      [] m = "november" -> <<"1", "1">>
      [] m = "december" -> <<"1", "2">>

At(t, k) == IF k >= 1 /\ k <= Len(t) THEN t[k] ELSE "$"

RECURSIVE SkipBlanks(_, _)
\* \s* from position k: the position of the first token that is no blank
SkipBlanks(t, k) == IF At(t, k) = " " THEN SkipBlanks(t, k + 1) ELSE k

\* \s*,?\s*(\d{4}) from position k: the position of the year, 0 if no match
YearAt(t, k) ==
    LET b == SkipBlanks(t, k)
        y == IF At(t, b) = "," THEN SkipBlanks(t, b + 1) ELSE b
    IN IF \A d \in 0..3 : IsDigit(At(t, y + d)) THEN y ELSE 0

\* the match of the pattern that starts at position p: [day, year] as token
\* sequences, or <<>> if there is none.  \d{1,2} takes two digits when the
\* rest then matches, and otherwise gives one back.
MatchAt(t, p) ==
    LET r == SkipBlanks(t, p + 1)
        two == IF IsDigit(At(t, r + 1)) THEN YearAt(t, r + 2) ELSE 0
        one == YearAt(t, r + 1)
    IN IF ~(At(t, p) \in MonthNames /\ r > p + 1 /\ IsDigit(At(t, r))) THEN <<>>
       ELSE IF two > 0 THEN <<SubSeq(t, r, r + 1), SubSeq(t, two, two + 3)>>
       ELSE IF one > 0 THEN <<SubSeq(t, r, r), SubSeq(t, one, one + 3)>>
       ELSE <<>>

\* str.zfill(2)
zfill2(d) == IF Len(d) < 2 THEN <<"0">> \o d ELSE d

try_extract_date_from_title(title) ==
    LET t == [k \in 1..Len(title) |-> Lower(title[k])]
        hits == {p \in 1..Len(t) : MatchAt(t, p) # <<>>}
    IN IF hits = {} THEN <<>>
       ELSE LET p == CHOOSE q \in hits : \A h \in hits : q <= h
                m == MatchAt(t, p)
            IN m[2] \o <<"-">> \o months(t[p]) \o <<"-">> \o zfill2(m[1])

(***************************************************************************)
(* scrape_article and the loop of main                                     *)
(***************************************************************************)
CurUrl == article_urls[i + 1]

\* scrape_article raises (get_soup, or anything after it): except Exception
FetchArticleRaises_fatal ==
    /\ pc = "fetch_article"
    /\ log' = Append(log, GetCall("article", CurUrl, FALSE))
    /\ pc' = "aborted"
    /\ UNCHANGED <<total_pages, page_num, pending, article_urls, seen, i, cur,
                   entries, errors, marks, img_count, disk, outFile>>
    /\ PureIdle

FetchArticleRaises ==
    /\ pc = "fetch_article"
    /\ log' = Append(log, GetCall("article", CurUrl, FALSE))
    /\ errors' = Append(errors, CurUrl)
    /\ marks' = Append(marks, "ERROR")
    /\ pc' = "end_article"
    /\ UNCHANGED <<total_pages, page_num, pending, article_urls, seen, i, cur,
                   entries, img_count, disk, outFile>>
    /\ PureIdle

\* the page holds no <article class="story">: scrape_article returns None
FetchArticleNoStory ==
    /\ pc = "fetch_article"
    /\ log' = Append(log, GetCall("article", CurUrl, TRUE))
    /\ marks' = Append(marks, "WARN")
    /\ pc' = "end_article"
    /\ UNCHANGED <<total_pages, page_num, pending, article_urls, seen, i, cur,
                   entries, errors, img_count, disk, outFile>>
    /\ PureIdle

\* the page is fetched and parsed: <h1>, body div and its <img> elements,
\* and whether it has a <link rel="canonical"> (which names the page itself)
FetchArticle ==
    /\ pc = "fetch_article"
    /\ log' = Append(log, GetCall("article", CurUrl, TRUE))
    /\ \E has_body \in BOOLEAN, imgs \in ImgLists, canon \in BOOLEAN :
          cur' = [title |-> ArticleTitle(CurUrl), canon |-> canon,
                  todo |-> IF has_body THEN imgs ELSE <<>>,
                  body |-> <<>>, images |-> <<>>]
    /\ pc' = "img"
    /\ UNCHANGED <<total_pages, page_num, pending, article_urls, seen, i,
                   entries, errors, marks, img_count, disk, outFile>>
    /\ PureIdle

ImgSrc == Head(cur.todo)
ImgAbs == urljoin(BASE_URL, ImgSrc)
ImgName == make_local_filename(ImgAbs)
Exists(path) == \E f \in disk : f.path = path

\* an <img> element of the body after the loop body has visited it
Img(orig, src, styled) == [orig |-> orig, src |-> src, styled |-> styled]

\* the two continue statements: no src, or a blob: URL
SkipImage ==
    /\ pc = "img"
    /\ cur.todo # <<>>
    /\ ImgSrc = <<>> \/ ImgAbs[1] = "blob:"
    /\ cur' = [cur EXCEPT !.todo = Tail(@),
                          !.body = Append(@, Img(ImgSrc, ImgSrc, FALSE))]
    /\ UNCHANGED <<pc, total_pages, page_num, pending, article_urls, seen, i,
                   entries, errors, marks, img_count, disk, outFile, log>>
    /\ PureIdle

Localizable == pc = "img" /\ cur.todo # <<>> /\ ImgSrc # <<>> /\ ImgAbs[1] # "blob:"

\* os.path.exists(local_path): the else branch
LocalizeExisting_refetch ==
    /\ Localizable
    /\ Exists(LocalPath(ImgName))
    /\ log' = Append(log, GetCall("image", ImgAbs, TRUE))
    /\ cur' = [cur EXCEPT !.todo = Tail(@),
                          !.images = Append(@, LocalRef(ImgName)),
                          !.body = Append(@, Img(ImgSrc, LocalRef(ImgName), TRUE))]
    /\ UNCHANGED <<pc, total_pages, page_num, pending, article_urls, seen, i,
                   entries, errors, marks, img_count, disk, outFile>>
    /\ PureIdle

LocalizeExisting ==
    /\ Localizable
    /\ Exists(LocalPath(ImgName))
    /\ cur' = [cur EXCEPT !.todo = Tail(@),
                          !.images = Append(@, LocalRef(ImgName)),
                          !.body = Append(@, Img(ImgSrc, LocalRef(ImgName), TRUE))]
    /\ UNCHANGED <<pc, total_pages, page_num, pending, article_urls, seen, i,
                   entries, errors, marks, img_count, disk, outFile, log>>
    /\ PureIdle

\* download_image returns True
DownloadImage ==
    /\ Localizable
    /\ ~Exists(LocalPath(ImgName))
    /\ log' = Append(log, GetCall("image", ImgAbs, TRUE))
    /\ disk' = disk \cup {[path |-> LocalPath(ImgName), whole |-> TRUE]}
    /\ cur' = [cur EXCEPT !.todo = Tail(@),
                          !.images = Append(@, LocalRef(ImgName)),
                          !.body = Append(@, Img(ImgSrc, LocalRef(ImgName), TRUE))]
    /\ UNCHANGED <<pc, total_pages, page_num, pending, article_urls, seen, i,
                   entries, errors, marks, img_count, outFile>>
    /\ PureIdle

\* download_image returns False: the request fails before open(local_path,
\* "wb") and no file is made
DownloadImageFails ==
    /\ Localizable
    /\ ~Exists(LocalPath(ImgName))
    /\ log' = Append(log, GetCall("image", ImgAbs, FALSE))
    /\ cur' = [cur EXCEPT !.todo = Tail(@),
                          !.body = Append(@, Img(ImgSrc, ImgAbs, TRUE))]
    /\ UNCHANGED <<pc, total_pages, page_num, pending, article_urls, seen, i,
                   entries, errors, marks, img_count, disk, outFile>>
    /\ PureIdle

\* download_image returns False: a chunk fails after open(local_path, "wb")
\* and the file stays as far as it was written
DownloadImageBreaks ==
    /\ Localizable
    /\ ~Exists(LocalPath(ImgName))
    /\ log' = Append(log, GetCall("image", ImgAbs, FALSE))
    /\ disk' = disk \cup {[path |-> LocalPath(ImgName), whole |-> FALSE]}
    /\ cur' = [cur EXCEPT !.todo = Tail(@),
                          !.body = Append(@, Img(ImgSrc, ImgAbs, TRUE))]
    /\ UNCHANGED <<pc, total_pages, page_num, pending, article_urls, seen, i,
                   entries, errors, marks, img_count, outFile>>
    /\ PureIdle

\* the canonical link: the tag's href joined and normalised, else the url
Canonical(url, canon) ==
    IF canon THEN Normalize(urljoin(BASE_URL, Tail(url))) ELSE Normalize(url)

\* the record scrape_article returns
Scraped ==
    [title |-> cur.title, date |-> <<>>, body |-> cur.body,
     link |-> Canonical(CurUrl, cur.canon), images |-> cur.images]

\* if not entry["date"]: entry["date"] = try_extract_date_from_title(...)
WithDate(entry) ==
    IF entry.date = <<>>
    THEN [entry EXCEPT !.date = try_extract_date_from_title(entry.title)]
    ELSE entry

\* the end of scrape_article and lines 236-244 of main
FinishArticle ==
    /\ pc = "img"
    /\ cur.todo = <<>>
    /\ entries' = Append(entries, WithDate(Scraped))
    /\ img_count' = img_count + Len(Scraped.images)
    /\ marks' = Append(marks, "OK")
    /\ cur' = NoCur
    /\ pc' = "end_article"
    /\ UNCHANGED <<total_pages, page_num, pending, article_urls, seen, i,
                   errors, disk, outFile, log>>
    /\ PureIdle

\* lines 251-252: the delay unless it was the last article
EndArticle_always ==
    /\ pc = "end_article"
    /\ log' = IF i < Len(article_urls) THEN Append(log, SleepCall) ELSE log
    /\ i' = i + 1
    /\ pc' = IF i + 1 < Len(article_urls) THEN "fetch_article" ELSE "strip"
    /\ UNCHANGED <<total_pages, page_num, pending, article_urls, seen, cur,
                   entries, errors, marks, img_count, disk, outFile>>
    /\ PureIdle

EndArticle ==
    /\ pc = "end_article"
    /\ log' = IF i < Len(article_urls) - 1 THEN Append(log, SleepCall) ELSE log
    /\ i' = i + 1
    /\ pc' = IF i + 1 < Len(article_urls) THEN "fetch_article" ELSE "strip"
    /\ UNCHANGED <<total_pages, page_num, pending, article_urls, seen, cur,
                   entries, errors, marks, img_count, disk, outFile>>
    /\ PureIdle

DropImages(e) == [f \in DOMAIN e \ {"images"} |-> e[f]]

\* step 3: del entry["images"] where it is empty
RemoveEmptyImages_keep ==
    /\ pc = "strip"
    /\ entries' = entries
    /\ pc' = "save"
    /\ UNCHANGED <<total_pages, page_num, pending, article_urls, seen, i, cur,
                   errors, marks, img_count, disk, outFile, log>>
    /\ PureIdle

RemoveEmptyImages ==
    /\ pc = "strip"
    /\ entries' = [k \in 1..Len(entries) |->
                      IF entries[k].images = <<>> THEN DropImages(entries[k])
                      ELSE entries[k]]
    /\ pc' = "save"
    /\ UNCHANGED <<total_pages, page_num, pending, article_urls, seen, i, cur,
                   errors, marks, img_count, disk, outFile, log>>
    /\ PureIdle

\* step 4: json.dump(entries, f)
SaveOutput ==
    /\ pc = "save"
    /\ outFile' = [state |-> "written", data |-> entries]
    /\ pc' = "done"
    /\ UNCHANGED <<total_pages, page_num, pending, article_urls, seen, i, cur,
                   entries, errors, marks, img_count, disk, log>>
    /\ PureIdle

Init == PipeInit /\ NormIdle /\ DateIdle

PipeNext ==
    \/ GetTotalPagesFails
    \/ GetTotalPages
    \/ FetchListingPageFails
    \/ FetchListingPage
    \/ ProcessLink
    \/ EndPage
    \/ FetchArticleRaises
    \/ FetchArticleNoStory
    \/ FetchArticle
    \/ SkipImage
    \/ LocalizeExisting
    \/ DownloadImage
    \/ DownloadImageFails
    \/ DownloadImageBreaks
    \/ FinishArticle
    \/ EndArticle
    \/ RemoveEmptyImages
    \/ SaveOutput

Next == PipeNext

Spec == Init /\ [][Next]_vars

(***************************************************************************)
(* The normalisation as a function: every URL of up to MaxUrlLen path      *)
(* tokens is normalised, and the result normalised again.                  *)
(***************************************************************************)
UrlInputs == {BASE_URL \o p : p \in SeqsUpTo({"/", "index.php", "node"}, MaxUrlLen)}

ApplyNormalize ==
    /\ Len(norm_out) < 2
    /\ norm_out' = Append(norm_out,
                          Normalize(IF norm_out = <<>> THEN norm_in ELSE Last(norm_out)))
    /\ UNCHANGED <<norm_in, pipeVars, dateVars>>

InitNorm == PipeInit /\ DateIdle /\ norm_in \in UrlInputs /\ norm_out = <<>>

NextNorm == ApplyNormalize

SpecNorm == InitNorm /\ [][NextNorm]_vars

(***************************************************************************)
(* try_extract_date_from_title as a function of the title.                 *)
(***************************************************************************)
DayDigits == {"0", "1", "3", "9"}

TitleInputs ==
    { pre \o <<word>> \o gap \o day \o sep \o year :
        pre \in {<<>>, <<"Pride", " ">>},
        word \in {"June", "FEBRUARY", "Pride"},
        gap \in {<<>>, <<" ">>},
        day \in SeqsUpTo(DayDigits, MaxDayDigits),
        sep \in {<<>>, <<",">>, <<",", " ">>, <<" ">>, <<" ", ",", " ">>, <<",", ",">>},
        year \in {<<"2", "0", "2", "4">>, <<"2", "0", "2", "3">>, <<"2", "0", "2">>} }

ApplyInferDate ==
    /\ ~date_done
    /\ date_out' = try_extract_date_from_title(date_in)
    /\ date_done' = TRUE
    /\ UNCHANGED <<date_in, pipeVars, normVars>>

InitDate == PipeInit /\ NormIdle /\ date_in \in TitleInputs /\ date_out = <<>> /\ date_done = FALSE

NextDate == ApplyInferDate

SpecDate == InitDate /\ [][NextDate]_vars

(***************************************************************************)
(* Vocabulary of the properties.                                           *)
(***************************************************************************)
RoutingPrefix == <<"/", "index.php", "/">>

IsArticleGet(c) == c.op = "get" /\ c.kind = "article"
IsListingGet(c) == c.op = "get" /\ c.kind = "listing"
IsSleep(c) == c.op = "sleep"

ArticleGets == SelectSeq(log, IsArticleGet)

\* the calls of collect_article_urls' loop and those of main's loop: the
\* former all precede the first article fetch
FirstArticleGet ==
    IF ArticleGets = <<>> THEN Len(log) + 1
    ELSE CHOOSE k \in 1..Len(log) : IsArticleGet(log[k]) /\ \A j \in 1..(k - 1) : ~IsArticleGet(log[j])

IsPageStep(c) == IsListingGet(c) \/ IsSleep(c)
IsArticleStep(c) == IsArticleGet(c) \/ IsSleep(c)

PageSteps == SelectSeq(SubSeq(log, 1, FirstArticleGet - 1), IsPageStep)
ArticleSteps == SelectSeq(SubSeq(log, FirstArticleGet, Len(log)), IsArticleStep)

\* fetches and delays alternate, starting with a fetch
Alternates(steps) ==
    \A k \in 1..Len(steps) : (steps[k].op = "get") <=> (k % 2 = 1)

ScrapePcs == {"fetch_article", "img", "end_article", "strip", "save"}

IsLocalRef(src) == src # <<>> /\ src[1] = "images"

IsLocalImg(im) == IsLocalRef(im.src)

\* the src attributes of a body that are local references, in body order
LocalSrcs(body) ==
    LET loc == SelectSeq(body, IsLocalImg) IN [k \in 1..Len(loc) |-> loc[k].src]

WholeOnDisk(ref) == \E f \in disk : f.path = ref /\ f.whole

\* every local reference a record or the article in hand carries
RefsInUse ==
    {cur.images[k] : k \in 1..Len(cur.images)}
    \cup {cur.body[k].src : k \in {j \in 1..Len(cur.body) : IsLocalRef(cur.body[j].src)}}
    \cup UNION { {entries[n].body[k].src :
                     k \in {j \in 1..Len(entries[n].body) : IsLocalRef(entries[n].body[j].src)}}
                 : n \in 1..Len(entries) }
    \cup UNION { IF "images" \in DOMAIN entries[n]
                 THEN {entries[n].images[k] : k \in 1..Len(entries[n].images)}
                 ELSE {} : n \in 1..Len(entries) }

\* the URLs of article_urls whose marker is m, in order
RECURSIVE UrlsMarked(_, _)
UrlsMarked(m, n) ==
    IF n = 0 THEN <<>>
    ELSE IF marks[n] = m THEN Append(UrlsMarked(m, n - 1), article_urls[n])
    ELSE UrlsMarked(m, n - 1)

(***************************************************************************)
(* C1: at every point of collect_article_urls and in the list it returns,  *)
(* no two entries of article_urls are equal after normalisation.           *)
(***************************************************************************)
C1_NoDuplicateNormalized ==
    \A a, b \in 1..Len(article_urls) :
        a # b => Normalize(article_urls[a]) # Normalize(article_urls[b])

\* on the second page, the next block links an article that is already
\* listed, under another spelling of its URL
C1_Witness ==
    /\ pc = "links"
    /\ page_num = 1
    /\ pending # <<>>
    /\ Contains(Head(pending), <<"/", "node", "/">>)
    /\ Normalize(urljoin(BASE_URL, Head(pending))) \in seen
    /\ \A k \in 1..Len(article_urls) : article_urls[k] # urljoin(BASE_URL, Head(pending))

(***************************************************************************)
(* C2: normalisation sends URLs that differ only by the routing prefix to  *)
(* the same string and is idempotent, also where the prefix is repeated.   *)
(***************************************************************************)
WithPrefixAt(u, k) == SubSeq(u, 1, k) \o <<"index.php", "/">> \o SubSeq(u, k + 1, Len(u))

C2_NormalizeIdempotentPrefixBlind ==
    Len(norm_out) = 2 =>
        /\ norm_out[2] = norm_out[1]
        /\ \A k \in 1..Len(norm_in) :
              norm_in[k] = "/" => Normalize(WithPrefixAt(norm_in, k)) = Normalize(norm_in)

(***************************************************************************)
(* C3: every local reference in an images list or a body src names a file  *)
(* whose download completed.                                               *)
(***************************************************************************)
C3_LocalRefsAreWholeFiles == \A ref \in RefsInUse : WholeOnDisk(ref)

(***************************************************************************)
(* C4: localising a URL whose derived path already holds a file makes no   *)
(* request, leaves the files as they are, appends images/<name> to the     *)
(* images list and writes it into the src of the image.                    *)
(***************************************************************************)
C4_ExistingFileIsReused ==
    [][ (Localizable /\ Exists(LocalPath(ImgName))) =>
           /\ log' = log
           /\ disk' = disk
           /\ cur'.images = Append(cur.images, LocalRef(ImgName))
           /\ Len(cur'.body) = Len(cur.body) + 1
           /\ Last(cur'.body).src = LocalRef(ImgName)
           /\ cur'.todo = Tail(cur.todo) ]_vars

\* an image was given the file that another URL of the same name left, and
\* its own URL was never requested
C4_Witness ==
    \E k \in 1..Len(cur.body) :
        /\ cur.body[k].orig = ImgA2
        /\ cur.body[k].src = LocalRef(make_local_filename(urljoin(BASE_URL, ImgA2)))
        /\ cur.images # <<>>
        /\ \A n \in 1..Len(log) : log[n].url # urljoin(BASE_URL, ImgA2)
        /\ \E n \in 1..Len(log) : log[n].url = urljoin(BASE_URL, ImgA) /\ log[n].ok

(***************************************************************************)
(* C5: in the written output a record has the images key exactly when one  *)
(* of its images was localised, and then it is the non-empty sequence of   *)
(* the local references in body order.                                     *)
(***************************************************************************)
C5_ImagesKeyIffLocalized ==
    outFile.state = "written" =>
        \A n \in 1..Len(outFile.data) :
            LET e == outFile.data[n] IN
            /\ ("images" \in DOMAIN e) <=> (LocalSrcs(e.body) # <<>>)
            /\ ("images" \in DOMAIN e) => (e.images # <<>> /\ e.images = LocalSrcs(e.body))

\* a written record with two different local references, and one without any
C5_Witness ==
    /\ outFile.state = "written"
    /\ \E n \in 1..Len(outFile.data) :
          /\ "images" \in DOMAIN outFile.data[n]
          /\ Len(outFile.data[n].images) = 2
          /\ outFile.data[n].images[1] # outFile.data[n].images[2]
    /\ \E n \in 1..Len(outFile.data) :
          /\ "images" \notin DOMAIN outFile.data[n]
          /\ outFile.data[n].body # <<>>

(***************************************************************************)
(* C6: every discovered URL is fetched once, in order; each ends as a      *)
(* record, a warning or a failed URL; no article outcome stops the run     *)
(* before the output is written; the written records are the extracted     *)
(* articles in discovery order.                                            *)
(***************************************************************************)
C6_FailuresIsolated ==
    LET gets == ArticleGets
        okUrls == UrlsMarked("OK", Len(marks))
    IN
    /\ gets # <<>> => pc # "aborted"
    /\ pc \in {"fetch_article", "img", "end_article"} => i < Len(article_urls)
    /\ pc \in {"strip", "save", "done"} => i = Len(article_urls)
    /\ Len(gets) <= Len(article_urls)
    /\ \A k \in 1..Len(gets) : gets[k].url = article_urls[k]
    /\ Len(gets) = IF pc \in {"img", "end_article"} THEN i + 1 ELSE i
    /\ Len(marks) = IF pc = "img" THEN i ELSE Len(gets)
    /\ errors = UrlsMarked("ERROR", Len(marks))
    /\ Len(entries) = Len(okUrls)
    /\ \A k \in 1..Len(entries) : entries[k].link = Normalize(okUrls[k])
    /\ pc = "done" =>
          /\ Len(marks) = Len(article_urls)
          /\ outFile.state = "written"
          /\ Len(outFile.data) = Len(okUrls)
          /\ \A k \in 1..Len(outFile.data) : outFile.data[k].link = Normalize(okUrls[k])

\* a finished run that met a record, a warning and a raised failure
C6_Witness ==
    /\ pc = "done"
    /\ Len(marks) = 3
    /\ {marks[k] : k \in 1..3} = {"OK", "WARN", "ERROR"}
    /\ marks[1] = "ERROR"
    /\ Len(outFile.data) = 1

(***************************************************************************)
(* C7: a listing fetch that fails is the last thing the run does: no       *)
(* article is fetched, no record kept, the output file not written.        *)
(***************************************************************************)
C7_ListingFailureAborts ==
    \A k \in 1..Len(log) :
        (log[k].kind \in {"discover", "listing"} /\ ~log[k].ok) =>
            /\ k = Len(log)
            /\ pc = "aborted"
            /\ ~ENABLED Next
            /\ ArticleGets = <<>>
            /\ entries = <<>>
            /\ outFile = [state |-> "stale", data |-> <<>>]

\* the second listing page fails after the first gave articles
C7_Witness ==
    /\ pc = "aborted"
    /\ page_num = 1
    /\ Len(article_urls) = 2

(***************************************************************************)
(* C8: every URL collect_article_urls returns is normalised: none holds    *)
(* the routing prefix, nor does any URL fetched or reported as failed.     *)
(***************************************************************************)
C8_ReturnedUrlsNormalized ==
    /\ \A k \in 1..Len(article_urls) :
          /\ ~Contains(article_urls[k], RoutingPrefix)
          /\ article_urls[k] = Normalize(article_urls[k])
    /\ \A k \in 1..Len(ArticleGets) : ~Contains(ArticleGets[k].url, RoutingPrefix)
    /\ \A k \in 1..Len(errors) : ~Contains(errors[k], RoutingPrefix)

(***************************************************************************)
(* C9: the result of try_extract_date_from_title is empty or a real        *)
(* calendar date YYYY-MM-DD, and empty exactly when the title holds no     *)
(* month name, day and year.                                               *)
(***************************************************************************)
Num2(d) == 10 * DigitVal(d[1]) + DigitVal(d[2])
Num4(d) == 1000 * DigitVal(d[1]) + 100 * DigitVal(d[2]) + 10 * DigitVal(d[3]) + DigitVal(d[4])

IsLeap(y) == (y % 4 = 0 /\ y % 100 # 0) \/ y % 400 = 0

DaysIn(m, y) ==
    IF m = 2 THEN (IF IsLeap(y) THEN 29 ELSE 28)
    ELSE IF m \in {4, 6, 9, 11} THEN 30 ELSE 31

IsCalendarDate(s) ==
    /\ Len(s) = 10
    /\ s[5] = "-" /\ s[8] = "-"
    /\ \A k \in {1, 2, 3, 4, 6, 7, 9, 10} : IsDigit(s[k])
    /\ Num2(SubSeq(s, 6, 7)) \in 1..12
    /\ Num2(SubSeq(s, 9, 10)) \in 1..DaysIn(Num2(SubSeq(s, 6, 7)), Num4(SubSeq(s, 1, 4)))

C9_DateEmptyOrCalendarDate ==
    date_done => (date_out = <<>> \/ IsCalendarDate(date_out))

(***************************************************************************)
(* C10: in each loop fetches and delays alternate, beginning with a fetch, *)
(* whatever a fetch gave, and once the loop is over its last step is a     *)
(* fetch.                                                                  *)
(***************************************************************************)
C10_PoliteDelayOrdering ==
    LET pages == PageSteps
        articles == ArticleSteps
    IN
    /\ Alternates(pages)
    /\ Alternates(articles)
    /\ (pc \in ScrapePcs \cup {"done"}) => IsListingGet(Last(pages))
    /\ (pc \in {"strip", "save", "done"} /\ article_urls # <<>>) => IsArticleGet(Last(articles))
    /\ (pc = "fetch_article" /\ i > 0) => IsSleep(Last(log))
    /\ (pc = "fetch_page" /\ page_num > 0) => IsSleep(Last(log))

\* a finished run of two listing pages and three articles, the first of
\* which raised
C10_Witness ==
    /\ pc = "done"
    /\ total_pages = 1
    /\ Len(article_urls) = 3
    /\ marks[1] = "ERROR"
    /\ Len(SelectSeq(log, IsSleep)) = 3

====
